---- MODULE Spec2Model ----
(***************************************************************************)
(* A state-machine model of Scream-to-the-Sky: the Game engine             *)
(* (src/src/game.ts), the Horse (src/unnamed/part_000), the                *)
(* ObstacleManager (second half of src/src/constants.ts), the AudioManager *)
(* (src/unnamed/part_001), the UIManager (second half of src/src/audio.ts) *)
(* and the page's event handlers (end of src/src/renderer.ts).             *)
(*                                                                         *)
(* Numbers are fixed point, exact for the inputs enumerated below:         *)
(*   time              milliseconds (deltaSeconds = deltaTime / 1000)      *)
(*   volume            1/VolScale                                          *)
(*   speed             1/SpeedScale px/s, SpeedScale = VolScale-threshold, *)
(*                     which makes updateSpeed's division exact            *)
(*   distance, x       1/DistScale, DistScale = SpeedScale * 1000, which   *)
(*                     makes speed * deltaSeconds exact                    *)
(*   y, pitch height   1/YScale px (divisions round down to 0.01 px)       *)
(***************************************************************************)
EXTENDS Integers, Sequences, FiniteSets, TLC

\* ---------------------------------------------------------------- units
MsPerSecond == 1000
VolScale    == 20
YScale      == 100
ProgScale   == 1000

\* ------------------------------------------------- GAME_CONFIG, TIMING
baseSpeed          == 10
maxSpeedBoost      == 1000
volumeThreshold    == 6      \* 0.3 in 1/VolScale
SpeedScale         == VolScale - volumeThreshold
DistScale          == SpeedScale * MsPerSecond
silenceGracePeriod == 50     \* 0.05 s in ms
gameOverDelay      == 300
PITCH_CAPTURE_DISTANCE == 4500
PITCH_CAPTURE_END      == 5000
SlowDownRate       == 200    \* px/s lost per second of silence

\* ------------------------------------------------ HORSE_CONFIG, Horse
groundY             == 650
baseAnimationSpeed  == 100
minAnimationSpeed   == 40
totalFrames         == 6
HorseX              == 50
TRANSITION_START    == 5000
TRANSITION_DURATION == 500
BASE_FLY_HEIGHT     == 0
MAX_PITCH_HEIGHT    == 400
PlaceholderWidth    == 80
PlaceholderHeight   == 60
AnimSpeedRef        == 300
SmoothingDiv        == 200   \* deltaTime * 0.005 = deltaTime / 200
AnimScale           == (AnimSpeedRef * SpeedScale) \div 100

\* ------------------------------------- OBSTACLE_CONFIG, ObstacleManager
CanvasWidth      == 1280
CanvasHeight     == 720
minSpawnInterval == 800
maxSpawnInterval == 2000
START_DISTANCE   == 5000
SpawnMargin      == 50
ObstacleGroundOffset == 55
CollisionPadding == 15
ObstacleMoveFactor == 2

ObstacleTypes == {"rock", "fence", "barrel"}

ObstacleWidth(type) ==
  CASE type = "rock" -> 60 [] type = "fence" -> 40 [] OTHER -> 50

ObstacleHeight(type) ==
  CASE type = "rock" -> 50 [] type = "fence" -> 70 [] OTHER -> 55

ObstacleGroundY == CanvasHeight - ObstacleGroundOffset

\* ------------------------------------------ AUDIO_CONFIG, AudioManager
\* raw amplitude is in 1/RawScale of full scale; a byte sample b stands for
\* the amplitude (b - ByteMid) / ByteMid
RawScale     == 3200
ByteMid      == 128
fftSize      == 2048
minVolume    == 320    \* 0.1 in 1/RawScale
maxVolume    == 800    \* 0.25 in 1/RawScale
minBin       == 2
maxBinLimit  == 120
minMagnitude == 20

\* -------------------------------------------------------------- bounds
\* requestAnimationFrame calls and clock advances explored, per specification
MaxRequests == 4
MaxTicks == 3
RunMaxRequests == 5
RunMaxTicks == 4
FlightMaxRequests == 5
FlightMaxTicks == 4
FieldMaxTicks == 2
LiveMaxRequests == 4
LiveMaxTicks == 3
\* samples in a waveform window
WindowLen == 2
\* |pitch height| explored, px
HeightRange == 10000

\* -------------------------------------------------------------- helpers
Max(a, b) == IF a >= b THEN a ELSE b
Min(a, b) == IF a <= b THEN a ELSE b

\* floor(a * b / c) for c > 0 without forming a * b
MulDiv(a, b, c) == (a \div c) * b + ((a % c) * b) \div c

\* ================================================================ Game
\* Game.getInitialState
getInitialState ==
  [isRunning |-> FALSE, isPaused |-> FALSE, isGameOver |-> FALSE,
   distance |-> 0, speed |-> 0, volumeLevel |-> 0, screamTime |-> 0,
   isScreaming |-> FALSE, flyingChallengeMode |-> FALSE]

\* updateSpeed normalising the raw volume, the threshold not subtracted
updateSpeedRawVolume(volumeLevel) ==
  LET boostNum == volumeLevel * maxSpeedBoost * SpeedScale
      speedBoost == boostNum \div (VolScale - volumeThreshold)
  IN  baseSpeed * SpeedScale + speedBoost

\* updateSpeed dividing by full scale instead of by 1 - T
updateSpeedFullScale(volumeLevel) ==
  LET boostNum == (volumeLevel - volumeThreshold) * maxSpeedBoost * SpeedScale
      speedBoost == boostNum \div VolScale
  IN  baseSpeed * SpeedScale + speedBoost

\* Game.updateSpeed: base + maxSpeedBoost * (volume - T) / (1 - T)
updateSpeed(volumeLevel) ==
  LET boostNum == (volumeLevel - volumeThreshold) * maxSpeedBoost * SpeedScale
      speedBoost == boostNum \div (VolScale - volumeThreshold)
  IN  baseSpeed * SpeedScale + speedBoost

\* the silent branch halving the speed instead of subtracting
slowDownHalving(speed, deltaTime) ==
  IF deltaTime > 0 THEN speed \div 2 ELSE speed

\* the silent branch without Math.max
slowDownUnclamped(speed, deltaTime) ==
  speed - (SlowDownRate * SpeedScale * deltaTime) \div MsPerSecond

\* Game.update, the silent branch: Math.max(0, speed - 200 * deltaSeconds)
slowDown(speed, deltaTime) ==
  Max(0, speed - (SlowDownRate * SpeedScale * deltaTime) \div MsPerSecond)

\* the silence test without its screamTime guard
silenceTimeoutUnarmed(timer, screamTime) ==
  timer >= silenceGracePeriod

\* the silence test with > in place of >=
silenceTimeoutLate(timer, screamTime) ==
  timer > silenceGracePeriod /\ screamTime > 0

\* Game.update, the test that ends the run on silence
silenceTimeout(timer, screamTime) ==
  timer >= silenceGracePeriod /\ screamTime > 0

\* the latch test without its upper distance limit
capturesPitchNoEnd(st, pitch) ==
  /\ st.flyingChallengeMode
  /\ st.distance >= PITCH_CAPTURE_DISTANCE * DistScale
  /\ pitch > 0

\* Game.update, the screaming branch on the GameState
screamingBranch(st, volumeLevel, deltaTime) ==
  [st EXCEPT !.screamTime = @ + deltaTime, !.speed = updateSpeed(volumeLevel)]

\* the silent branch counting its frame as scream time
silentBranchCounting(st, deltaTime) ==
  [st EXCEPT !.screamTime = @ + deltaTime, !.speed = slowDown(@, deltaTime)]

\* Game.update, the silent branch on the GameState when the game goes on
silentBranch(st, deltaTime) ==
  [st EXCEPT !.speed = slowDown(@, deltaTime)]

\* Game.update, the test that latches the reference pitch
capturesPitch(st, pitch) ==
  /\ st.flyingChallengeMode
  /\ st.distance >= PITCH_CAPTURE_DISTANCE * DistScale
  /\ st.distance < PITCH_CAPTURE_END * DistScale
  /\ pitch > 0

\* =============================================================== Horse
\* the Horse's fields after its constructor; the sprite sheet loads later
HorseInit ==
  [y |-> groundY * YScale, currentFrame |-> 0, frameTimer |-> 0,
   animationSpeed |-> baseAnimationSpeed * AnimScale,
   spriteLoaded |-> FALSE, frameWidth |-> 0, frameHeight |-> 0,
   currentDistance |-> 0, flyingModeEnabled |-> FALSE,
   currentPitchHeight |-> 0, targetPitchHeight |-> 0]

\* spriteSheet.onload
spriteOnload(h, img) ==
  [h EXCEPT !.spriteLoaded = TRUE,
            !.frameWidth = img.width \div 2,
            !.frameHeight = img.height \div 3,
            !.y = (groundY - img.height \div 3) * YScale]

\* Horse.reset leaving the animation frame where it was
HorseResetKeepsFrame(h) ==
  [h EXCEPT !.animationSpeed = baseAnimationSpeed * AnimScale,
            !.currentDistance = 0, !.currentPitchHeight = 0,
            !.targetPitchHeight = 0,
            !.y = IF h.spriteLoaded THEN (groundY - h.frameHeight) * YScale
                  ELSE h.y]

\* Horse.reset
HorseReset(h) ==
  [h EXCEPT !.currentFrame = 0, !.frameTimer = 0,
            !.animationSpeed = baseAnimationSpeed * AnimScale,
            !.currentDistance = 0, !.currentPitchHeight = 0,
            !.targetPitchHeight = 0,
            !.y = IF h.spriteLoaded THEN (groundY - h.frameHeight) * YScale
                  ELSE h.y]

\* getTransitionProgress without the challenge-mode test
getTransitionProgressAnyMode(h) ==
  IF h.currentDistance < TRANSITION_START * DistScale THEN 0
  ELSE Min(TRANSITION_DURATION * DistScale,
           Max(0, h.currentDistance - TRANSITION_START * DistScale))

\* getTransitionProgress without Math.min(1, ...)
getTransitionProgressUncapped(h) ==
  IF ~h.flyingModeEnabled THEN 0
  ELSE IF h.currentDistance < TRANSITION_START * DistScale THEN 0
  ELSE Max(0, h.currentDistance - TRANSITION_START * DistScale)

\* Horse.getTransitionProgress, as a numerator over TRANSITION_DURATION * DistScale
getTransitionProgress(h) ==
  IF ~h.flyingModeEnabled THEN 0
  ELSE IF h.currentDistance < TRANSITION_START * DistScale THEN 0
  ELSE Min(TRANSITION_DURATION * DistScale,
           Max(0, h.currentDistance - TRANSITION_START * DistScale))

\* the same progress in 1/ProgScale, rounded down
progressUnits(h) ==
  getTransitionProgress(h) \div ((TRANSITION_DURATION * DistScale) \div ProgScale)

\* Horse.update, the target height: clamp(0, MAX, (cur / ref - 1) * MAX)
pitchTarget(currentPitch, referencePitch) ==
  LET rawOffset == ((currentPitch - referencePitch) * MAX_PITCH_HEIGHT * YScale)
                   \div referencePitch
  IN  Max(0, Min(MAX_PITCH_HEIGHT * YScale, rawOffset))

\* Horse.update, one step of the smoothing filter toward target
smooth(height, target, deltaTime) ==
  height + MulDiv(target - height, deltaTime, SmoothingDiv)

\* Horse.update, the sprite animation; animationSpeed is in 1/AnimScale ms, so
\* that (speed / 300) * 100 is the speed itself
animate(h, deltaTime, speed) ==
  IF speed > 0
  THEN LET aspd == Max(minAnimationSpeed * AnimScale,
                       baseAnimationSpeed * AnimScale - speed)
           timer == h.frameTimer + deltaTime
           due == timer * AnimScale >= aspd
       IN  [h EXCEPT !.animationSpeed = aspd,
                     !.frameTimer = IF due THEN 0 ELSE timer,
                     !.currentFrame = IF due THEN (h.currentFrame + 1) % totalFrames
                                      ELSE h.currentFrame]
  ELSE [h EXCEPT !.currentFrame = 0, !.frameTimer = 0]

\* Horse.update
HorseUpdate(h0, deltaTime, speed, distance, currentPitch, referencePitch) ==
  LET h1 == animate([h0 EXCEPT !.currentDistance = distance], deltaTime, speed)
      flyProgress == getTransitionProgress(h1)
      steer == flyProgress > 0 /\ referencePitch > 0 /\ currentPitch > 0
      target == IF steer THEN pitchTarget(currentPitch, referencePitch)
                ELSE h1.targetPitchHeight
      height == smooth(h1.currentPitchHeight, IF steer THEN target ELSE 0, deltaTime)
      h2 == [h1 EXCEPT !.targetPitchHeight = target, !.currentPitchHeight = height]
      baseY == (groundY - h2.frameHeight) * YScale
      baseFlyOffset == MulDiv(BASE_FLY_HEIGHT * YScale, progressUnits(h2), ProgScale)
      pitchFlyOffset == MulDiv(height, progressUnits(h2), ProgScale)
  IN  IF h2.spriteLoaded
      THEN [h2 EXCEPT !.y = baseY - baseFlyOffset - pitchFlyOffset]
      ELSE h2

\* Horse.getBounds, x and width in px, y in 1/YScale px, height in px
getBounds(h) ==
  [x |-> HorseX, y |-> h.y,
   width |-> IF h.spriteLoaded THEN h.frameWidth ELSE PlaceholderWidth,
   height |-> IF h.spriteLoaded THEN h.frameHeight ELSE PlaceholderHeight]

\* reset leaving an obstacle on the field
ObstacleResetLitter(interval) ==
  [obstacles |-> <<[x |-> HorseX * DistScale,
                    y |-> ObstacleGroundY - ObstacleHeight("rock"),
                    width |-> ObstacleWidth("rock"),
                    height |-> ObstacleHeight("rock"), type |-> "rock"]>>,
   nextSpawnDistance |-> (START_DISTANCE + interval) * DistScale]

\* ===================================================== ObstacleManager
\* ObstacleManager.reset, for the interval getRandomSpawnInterval drew
ObstacleReset(interval) ==
  [obstacles |-> <<>>,
   nextSpawnDistance |-> (START_DISTANCE + interval) * DistScale]

\* ObstacleManager.spawnObstacle, for the type getRandomType drew
spawnObstacle(type) ==
  [x |-> (CanvasWidth + SpawnMargin) * DistScale,
   y |-> ObstacleGroundY - ObstacleHeight(type),
   width |-> ObstacleWidth(type), height |-> ObstacleHeight(type), type |-> type]

\* the filter keeping every obstacle
onScreenAlways(o) == TRUE

\* the filter keeping obstacles until they are a canvas width off screen
onScreenWide(o) == o.x + o.width * DistScale > (0 - CanvasWidth) * DistScale

\* the filter of ObstacleManager.update: still (partly) right of x = -50
onScreen(o) == o.x + o.width * DistScale > (0 - SpawnMargin) * DistScale

\* ObstacleManager.update; interval and type are its two random draws
ObstacleUpdate(obs, next, distance, speed, deltaTime, interval, type) ==
  IF distance < START_DISTANCE * DistScale
  THEN [obstacles |-> obs, nextSpawnDistance |-> next, spawned |-> FALSE]
  ELSE LET spawn == distance >= next
           all == IF spawn THEN Append(obs, spawnObstacle(type)) ELSE obs
           movement == speed * deltaTime * ObstacleMoveFactor
           moved == [i \in 1..Len(all) |-> [all[i] EXCEPT !.x = @ - movement]]
       IN  [obstacles |-> SelectSeq(moved, onScreen),
            nextSpawnDistance |-> IF spawn THEN distance + interval * DistScale
                                  ELSE next,
            spawned |-> spawn]

\* the overlap test counting a touching right edge as a hit
overlapsTouching(o, b) ==
  LET horseLeft   == (b.x + CollisionPadding) * DistScale
      horseRight  == (b.x + b.width - CollisionPadding) * DistScale
      horseTop    == b.y + CollisionPadding * YScale
      horseBottom == b.y + (b.height - CollisionPadding) * YScale
      obsLeft   == o.x
      obsRight  == o.x + o.width * DistScale
      obsTop    == o.y * YScale
      obsBottom == (o.y + o.height) * YScale
  IN  /\ horseRight >= obsLeft
      /\ horseLeft < obsRight
      /\ horseBottom > obsTop
      /\ horseTop < obsBottom

\* the overlap test of ObstacleManager.checkCollision for one obstacle
overlaps(o, b) ==
  LET horseLeft   == (b.x + CollisionPadding) * DistScale
      horseRight  == (b.x + b.width - CollisionPadding) * DistScale
      horseTop    == b.y + CollisionPadding * YScale
      horseBottom == b.y + (b.height - CollisionPadding) * YScale
      obsLeft   == o.x
      obsRight  == o.x + o.width * DistScale
      obsTop    == o.y * YScale
      obsBottom == (o.y + o.height) * YScale
  IN  /\ horseRight > obsLeft
      /\ horseLeft < obsRight
      /\ horseBottom > obsTop
      /\ horseTop < obsBottom

\* ObstacleManager.checkCollision
checkCollision(obs, b) == \E i \in 1..Len(obs) : overlaps(obs[i], b)

\* ======================================================== AudioManager
\* the AudioManager's fields after construction
AudioInit ==
  [stream |-> "null", audioContext |-> "null", analyser |-> FALSE,
   microphone |-> FALSE, dataArray |-> FALSE, frequencyArray |-> FALSE,
   isEnabled |-> FALSE]

\* the largest r in lo..hi with r * r <= x, by bisection
RECURSIVE isqrtIn(_, _, _)
isqrtIn(x, lo, hi) ==
  IF lo >= hi THEN lo
  ELSE LET mid == (lo + hi + 1) \div 2
       IN  IF mid * mid <= x THEN isqrtIn(x, mid, hi) ELSE isqrtIn(x, lo, mid - 1)

\* the integer square root, for arguments up to RawScale squared
isqrt(x) == isqrtIn(x, 0, RawScale)

\* getVolumeLevel's loop: the sum of the squared amplitudes, in 1/ByteMid^2
RECURSIVE sumSquares(_)
sumSquares(window) ==
  IF window = <<>> THEN 0
  ELSE (Head(window) - ByteMid) * (Head(window) - ByteMid) + sumSquares(Tail(window))

\* getVolumeLevel's raw value: Math.sqrt(sumSquares / dataArray.length)
rms(window) ==
  isqrt((sumSquares(window) * (RawScale \div ByteMid) * (RawScale \div ByteMid))
        \div Len(window))

\* the mapping to [0, 1] without Math.min(1, ...)
normaliseUnclamped(raw) ==
  Max(0, ((raw - minVolume) * VolScale) \div (maxVolume - minVolume))

\* getVolumeLevel's mapping of [minVolume, maxVolume] to [0, 1], in 1/VolScale
normalise(raw) ==
  Max(0, Min(VolScale, ((raw - minVolume) * VolScale) \div (maxVolume - minVolume)))

\* the magnitude of a bin of the spectrum whose non-zero bins are `peaks`
magnitude(peaks, i) ==
  IF \E p \in peaks : p.bin = i
  THEN (CHOOSE p \in peaks : p.bin = i).value
  ELSE 0

\* the body of getPitch's loop at bin i
scanStep(peaks, i, max) ==
  IF magnitude(peaks, i) > max.maxValue
  THEN [maxValue |-> magnitude(peaks, i), maxIndex |-> i]
  ELSE max

\* getPitch's loop over the bins lo..hi-1 in ascending order, starting from
\* `max`; the range is walked half by half, the lower half first, to keep the
\* evaluation shallow
RECURSIVE scan(_, _, _, _)
scan(peaks, lo, hi, max) ==
  IF hi <= lo THEN max
  ELSE IF hi = lo + 1 THEN scanStep(peaks, lo, max)
  ELSE LET mid == (lo + hi) \div 2
           lower == scan(peaks, lo, mid, max)
       IN  IF lower = max THEN scan(peaks, mid, hi, max)
           ELSE scan(peaks, mid, hi, lower)

\* the pitch search starting at bin 0
detectPitchFromZero(peaks, length, sampleRate) ==
  LET peak == scan(peaks, 0, Min(length, maxBinLimit),
                  [maxValue |-> 0, maxIndex |-> 0])
  IN  IF peak.maxValue < minMagnitude THEN 0 ELSE peak.maxIndex * sampleRate

\* getPitch past its guard, for a frequencyArray of `length` bins: the pitch
\* as a numerator over fftSize (maxIndex * sampleRate / fftSize Hz)
detectPitch(peaks, length, sampleRate) ==
  LET peak == scan(peaks, minBin, Min(length, maxBinLimit),
                  [maxValue |-> 0, maxIndex |-> 0])
  IN  IF peak.maxValue < minMagnitude THEN 0 ELSE peak.maxIndex * sampleRate


\* requestMicrophoneAccess: whether getUserMedia resolved with a new stream
acquiresStream(outcome) == outcome # "denied"

\* getVolumeLevel guarding on the analyser alone
getVolumeLevelAnalyserOnly(a, sampled) ==
  IF ~a.analyser THEN 0 ELSE sampled

\* AudioManager.getVolumeLevel: 0 without an analyser, else the sampled level
getVolumeLevel(a, sampled) ==
  IF ~a.analyser \/ ~a.dataArray THEN 0 ELSE sampled

\* AudioManager.getPitch: 0 without an analyser, else the detected pitch
getPitch(a, detected) ==
  IF ~a.analyser \/ ~a.frequencyArray \/ a.audioContext = "null" THEN 0
  ELSE detected

\* AudioManager.requestMicrophoneAccess: the fields after the outcome
\*   granted      every step succeeded
\*   denied       getUserMedia rejected
\*   ctxError     new AudioContext() threw
\*   sourceError  createMediaStreamSource threw
requestMicrophoneAccess(a, outcome) ==
  CASE outcome = "granted" ->
         [stream |-> "live", audioContext |-> "open", analyser |-> TRUE,
          microphone |-> TRUE, dataArray |-> TRUE, frequencyArray |-> TRUE,
          isEnabled |-> TRUE]
    [] outcome = "ctxError" ->
         [a EXCEPT !.stream = "live", !.isEnabled = FALSE]
    [] outcome = "sourceError" ->
         [a EXCEPT !.stream = "live", !.audioContext = "open",
                   !.analyser = TRUE, !.isEnabled = FALSE]
    [] OTHER -> [a EXCEPT !.isEnabled = FALSE]

\* AudioManager.dispose
AudioDispose(a) ==
  [stream |-> "null",
   audioContext |-> "null", analyser |-> FALSE, microphone |-> FALSE,
   dataArray |-> FALSE, frequencyArray |-> FALSE, isEnabled |-> FALSE]

\* =============================================================== state
VARIABLES
  state,              \* Game.state: the GameState record
  lastTime,           \* Game.lastTime
  animationFrameId,   \* Game.animationFrameId, 0 for null
  silenceTimer,       \* Game.silenceTimer, ms
  referencePitch,     \* Game.referencePitch, Hz
  currentPitch,       \* Game.currentPitch, Hz
  horse,              \* the Horse's fields
  obstacles,          \* ObstacleManager.obstacles, in spawn order
  nextSpawnDistance,  \* ObstacleManager.nextSpawnDistance
  lastSpawnAt,        \* the distance at the session's last spawn, or 5000 m
  audio,              \* the AudioManager's fields
  ui,                 \* the UIManager's screen, start button and final scores
  now,                \* performance.now(), ms
  scheduled,          \* ids of the requested animation frames not yet run
  requests,           \* requestAnimationFrame calls so far (the last id)
  timeouts,           \* due times of the pending game-over timeouts
  hidden,             \* document.hidden
  startPending,       \* start() is awaiting requestMicrophoneAccess()
  unloaded,           \* beforeunload has run
  ticks,              \* clock advances so far
  gameOverCalls,      \* gameOver() calls in the current session
  clock,              \* when pause() and resume() last ran, -1 for never
  log                 \* what the last step did

vars == <<state, lastTime, animationFrameId, silenceTimer, referencePitch,
          currentPitch, horse, obstacles, nextSpawnDistance, lastSpawnAt, audio, ui, now,
          scheduled, requests, timeouts, hidden, startPending, unloaded,
          ticks, gameOverCalls, clock, log>>

gameVars  == <<state, lastTime, animationFrameId, silenceTimer, referencePitch,
               currentPitch, horse, obstacles, nextSpawnDistance, lastSpawnAt, gameOverCalls>>

\* the log entry of a step other than a frame update
Did(op) ==
  [op |-> op, deltaTime |-> 0, integrated |-> FALSE, usedSpeed |-> 0,
   collisionChecked |-> FALSE, collided |-> FALSE, silenceOver |-> FALSE,
   spawned |-> FALSE, value |-> 0, acquired |-> FALSE,
   input |-> [window |-> <<>>, peaks |-> {}, sampleRate |-> 0],
   rendered |-> [distance |-> 0, y |-> 0]]

\* ----------------------------------------------------------- the inputs
\* what the analyser reports in one frame: volume in 1/VolScale, pitch in Hz
Sound(v, p) == [volume |-> v, pitch |-> p]

\* the whole page: every handler, with the fewest inputs that show a scream, a
\* silence shorter than the grace period and one longer than the timeout delay
Env ==
  [sounds    |-> {Sound(0, 0), Sound(13, 200)},
   deltas    |-> {30, 300},
   intervals |-> {800},
   types     |-> {"rock"},
   modes     |-> {FALSE},
   outcomes  |-> {"granted", "denied", "ctxError", "sourceError"},
   sheets    |-> {[width |-> 256, height |-> 288]},
   maxRequests |-> MaxRequests,
   maxTicks    |-> MaxTicks]

\* a visible tab that stays open: the frame updates, with volumes at, below and
\* above the threshold and frames shorter than, equal to and longer than the
\* grace period
RunEnv ==
  [sounds    |-> {Sound(0, 0), Sound(6, 200), Sound(7, 200), Sound(13, 200),
                 Sound(20, 300)},
   deltas    |-> {20, 30, 300},
   intervals |-> {800},
   types     |-> {"rock"},
   modes     |-> {FALSE},
   outcomes  |-> {"granted", "denied"},
   sheets    |-> {[width |-> 256, height |-> 288]},
   maxRequests |-> RunMaxRequests,
   maxTicks    |-> RunMaxTicks]

\* long runs, with and without challenge mode: frames long enough to cross
\* the 5000 m line and reach the first obstacles
FlightEnv ==
  [sounds    |-> {Sound(0, 0), Sound(20, 300), Sound(20, 450)},
   deltas    |-> {600, 4800},
   intervals |-> {800, 1400},
   types     |-> {"rock", "fence"},
   modes     |-> {TRUE, FALSE},
   outcomes  |-> {"granted"},
   sheets    |-> {[width |-> 256, height |-> 288]},
   maxRequests |-> FlightMaxRequests,
   maxTicks    |-> FlightMaxTicks]

\* ---------------------------------------------------------------- Init
\* the state after main's `new Game(canvas); game.initialize()`
InitWith(E) ==
  /\ state = getInitialState
  /\ lastTime = 0
  /\ animationFrameId = 0
  /\ silenceTimer = 0
  /\ referencePitch = 0
  /\ currentPitch = 0
  /\ horse = HorseInit
  /\ \E interval \in E.intervals :
       /\ obstacles = ObstacleReset(interval).obstacles
       /\ nextSpawnDistance = ObstacleReset(interval).nextSpawnDistance
  /\ lastSpawnAt = START_DISTANCE * DistScale
  /\ audio = AudioInit
  /\ ui = [currentScreen |-> "start", startBtnDisabled |-> FALSE,
           finalDistance |-> 0, finalTime |-> 0]
  /\ now = 0
  /\ scheduled = {}
  /\ requests = 0
  /\ timeouts = {}
  /\ hidden = FALSE
  /\ startPending = FALSE
  /\ unloaded = FALSE
  /\ ticks = 0
  /\ gameOverCalls = 0
  /\ clock = [pausedAt |-> 0 - 1, resumedAt |-> 0 - 1]
  /\ log = Did("init")

\* ------------------------------------------------------- the scheduler
\* requestAnimationFrame(this.gameLoop) called with `pending` still requested
requestAnimationFrame(pending) ==
  [id |-> requests + 1, scheduled |-> pending \cup {requests + 1}]

\* cancelAnimationFrame(this.animationFrameId) behind `if (this.animationFrameId)`
cancelAnimationFrame(pending, id) ==
  IF id # 0 THEN pending \ {id} ELSE pending

\* time passes between two events; only a requested frame or a pending
\* timeout ever reads the clock
Tick(d) ==
  /\ ~unloaded
  /\ scheduled # {} \/ timeouts # {}
  /\ log.op # "Tick"
  /\ now' = now + d
  /\ ticks' = ticks + 1
  /\ log' = Did("Tick")
  /\ UNCHANGED <<clock, gameVars, audio, ui, scheduled, requests, timeouts, hidden,
                 startPending, unloaded>>

\* the running sprite sheet's onload handler
SpriteLoad(img) ==
  /\ ~unloaded
  /\ ~horse.spriteLoaded
  /\ horse' = spriteOnload(horse, img)
  /\ log' = Did("SpriteLoad")
  /\ UNCHANGED <<clock, state, lastTime, animationFrameId, silenceTimer, referencePitch,
                 currentPitch, obstacles, nextSpawnDistance, lastSpawnAt, gameOverCalls,
                 audio, ui, now, scheduled, requests, timeouts, hidden,
                 startPending, unloaded, ticks>>

\* ---------------------------------------------------------------- Game
\* the block start() and restart() share: a fresh session and its first frame
\* request (game.ts 91-108 and 274-291)
resetSession(mode, interval) ==
  /\ state' = [getInitialState EXCEPT !.isRunning = TRUE,
                                      !.flyingChallengeMode = mode]
  /\ silenceTimer' = 0
  /\ referencePitch' = 0
  /\ currentPitch' = 0
  /\ horse' = [HorseReset(horse) EXCEPT !.flyingModeEnabled = mode]
  /\ obstacles' = ObstacleReset(interval).obstacles
  /\ nextSpawnDistance' = ObstacleReset(interval).nextSpawnDistance
  /\ lastSpawnAt' = START_DISTANCE * DistScale
  /\ ui' = [ui EXCEPT !.currentScreen = "game"]
  /\ lastTime' = now
  /\ animationFrameId' = requestAnimationFrame(scheduled).id
  /\ scheduled' = requestAnimationFrame(scheduled).scheduled
  /\ requests' = requests + 1
  /\ gameOverCalls' = 0

\* the start button's click handler up to start()'s await
StartClick ==
  /\ ~unloaded
  /\ ui.currentScreen = "start"
  /\ ~ui.startBtnDisabled
  /\ ~startPending
  /\ ui' = [ui EXCEPT !.startBtnDisabled = TRUE]
  /\ startPending' = TRUE
  /\ log' = Did("StartClick")
  /\ UNCHANGED <<clock, gameVars, audio, now, scheduled, requests, timeouts, hidden,
                 unloaded, ticks>>

\* start() failing without the click handler re-enabling the button
MicResultNoRetry(outcome, mode, interval) ==
  /\ ~unloaded
  /\ startPending
  /\ startPending' = FALSE
  /\ audio' = requestMicrophoneAccess(audio, outcome)
  /\ IF outcome = "granted"
     THEN /\ resetSession(mode, interval)
          /\ log' = [Did("StartDone") EXCEPT !.acquired = acquiresStream(outcome)]
     ELSE /\ log' = [Did("StartFailed") EXCEPT !.acquired = acquiresStream(outcome)]
          /\ UNCHANGED <<gameVars, scheduled, requests, ui>>
  /\ UNCHANGED <<clock, now, timeouts, hidden, unloaded, ticks>>

\* requestMicrophoneAccess() settles and start() runs to its end.  A context
\* that comes up suspended feeds the analyser nothing until AudioManager.resume()
\* settles, so a frame between the two awaits reads volume 0 as a frame before
\* the grant does; the two awaits are one step here.
MicResult(outcome, mode, interval) ==
  /\ ~unloaded
  /\ startPending
  /\ startPending' = FALSE
  /\ audio' = requestMicrophoneAccess(audio, outcome)
  /\ IF outcome = "granted"
     THEN /\ resetSession(mode, interval)
          /\ log' = [Did("StartDone") EXCEPT !.acquired = acquiresStream(outcome)]
     ELSE /\ ui' = [ui EXCEPT !.startBtnDisabled = FALSE]
          /\ log' = [Did("StartFailed") EXCEPT !.acquired = acquiresStream(outcome)]
          /\ UNCHANGED <<gameVars, scheduled, requests>>
  /\ UNCHANGED <<clock, now, timeouts, hidden, unloaded, ticks>>

\* Game.restart, from the restart button or the Enter/space key, both of which
\* act only on the game-over screen
Restart(mode, interval) ==
  /\ ~unloaded
  /\ ui.currentScreen = "gameover"
  /\ resetSession(mode, interval)
  /\ log' = Did("Restart")
  /\ UNCHANGED <<clock, audio, now, timeouts, hidden, startPending, unloaded, ticks>>

\* Game.pause
pause(st) == [st EXCEPT !.isPaused = TRUE, !.isRunning = FALSE]

\* resume's guard without the game-over test
canResumeWhenOver(st) == st.isPaused

\* Game.resume's guard
canResume(st) == st.isPaused /\ ~st.isGameOver

\* resume leaving lastTime at the value it had when the game was paused
resumeStaleClock(st, last, t) ==
  IF canResume(st)
  THEN [state |-> [st EXCEPT !.isPaused = FALSE, !.isRunning = TRUE],
        lastTime |-> last, requested |-> TRUE]
  ELSE [state |-> st, lastTime |-> last, requested |-> FALSE]

\* Game.resume at time t: the flags, the clock reference and whether it
\* requests a frame
resume(st, last, t) ==
  IF canResume(st)
  THEN [state |-> [st EXCEPT !.isPaused = FALSE, !.isRunning = TRUE],
        lastTime |-> t, requested |-> TRUE]
  ELSE [state |-> st, lastTime |-> last, requested |-> FALSE]

\* visibilitychange with document.hidden: game.pause()
Hide ==
  /\ ~unloaded
  /\ ~hidden
  /\ hidden' = TRUE
  /\ state' = pause(state)
  /\ clock' = [clock EXCEPT !.pausedAt = now]
  /\ log' = Did("Pause")
  /\ UNCHANGED <<lastTime, animationFrameId, silenceTimer, referencePitch,
                 currentPitch, horse, obstacles, nextSpawnDistance, lastSpawnAt,
                 gameOverCalls, audio, ui, now, scheduled, requests, timeouts,
                 startPending, unloaded, ticks>>

\* visibilitychange with the document visible again: game.resume()
Show ==
  /\ ~unloaded
  /\ hidden
  /\ hidden' = FALSE
  /\ \E r \in {resume(state, lastTime, now)} :
       /\ state' = r.state
       /\ lastTime' = r.lastTime
       /\ IF r.requested
          THEN /\ animationFrameId' = requestAnimationFrame(scheduled).id
               /\ scheduled' = requestAnimationFrame(scheduled).scheduled
               /\ requests' = requests + 1
               /\ clock' = [clock EXCEPT !.resumedAt = now]
               /\ log' = Did("Resume")
          ELSE /\ log' = Did("ResumeIgnored")
               /\ UNCHANGED <<animationFrameId, scheduled, requests, clock>>
  /\ UNCHANGED <<silenceTimer, referencePitch, currentPitch, horse, obstacles,
                 nextSpawnDistance, lastSpawnAt, gameOverCalls, audio, ui, now, timeouts,
                 startPending, unloaded, ticks>>

\* the callback gameOver() hands to setTimeout: UIManager.showGameOverScreen
\* with the scores read when it runs
GameOverTimeout ==
  /\ ~unloaded
  /\ \E due \in timeouts :
       /\ now >= due
       /\ timeouts' = timeouts \ {due}
  /\ ui' = [ui EXCEPT !.currentScreen = "gameover",
                      !.finalDistance = state.distance \div DistScale,
                      !.finalTime = state.screamTime]
  /\ log' = Did("GameOverScreen")
  /\ UNCHANGED <<clock, gameVars, audio, now, scheduled, requests, hidden,
                 startPending, unloaded, ticks>>

\* beforeunload: Game.dispose
Dispose ==
  /\ unloaded' = TRUE
  /\ scheduled' = cancelAnimationFrame(scheduled, animationFrameId)
  /\ audio' = AudioDispose(audio)
  /\ log' = Did("Dispose")
  /\ UNCHANGED <<clock, gameVars, ui, now, requests, timeouts, hidden, startPending,
                 ticks>>


\* gameOver() ending the session without stopping the horse
gameOverKeepsSpeed(st) == [st EXCEPT !.isGameOver = TRUE, !.isRunning = FALSE]

\* gameOver() stopping the horse but not ending the session
gameOverStillRunning(st) == [st EXCEPT !.speed = 0]

\* Game.gameOver on the GameState
gameOver(st) == [st EXCEPT !.isGameOver = TRUE, !.isRunning = FALSE, !.speed = 0]

\* gameLoop's guard without the isRunning test
loopRunsWhilePaused(st) == ~st.isGameOver

\* Game.gameLoop's guard
loopRuns(st) == st.isRunning /\ ~st.isGameOver

\* Game.update integrating the distance before the speed is updated
UpdateStaleSpeed(deltaTime, snd, interval, type) ==
  LET volumeLevel == getVolumeLevel(audio, snd.volume)
      pitch       == getPitch(audio, snd.pitch)
      isScreaming == volumeLevel > volumeThreshold
      st1 == [state EXCEPT !.volumeLevel = volumeLevel, !.isScreaming = isScreaming]
      timer == IF isScreaming THEN 0 ELSE silenceTimer + deltaTime
      silenceOver == ~isScreaming /\ silenceTimeout(timer, st1.screamTime)
      st2 == IF isScreaming
             THEN screamingBranch(st1, volumeLevel, deltaTime)
             ELSE silentBranch(st1, deltaTime)
      refPitch == IF isScreaming /\ capturesPitch(st2, pitch) THEN pitch
                  ELSE referencePitch
      st3 == [st2 EXCEPT !.distance = @ + state.speed * deltaTime]
      h == HorseUpdate(horse, deltaTime, st3.speed, st3.distance, pitch, refPitch)
      om == IF st3.flyingChallengeMode
            THEN ObstacleUpdate(obstacles, nextSpawnDistance, st3.distance,
                                st3.speed, deltaTime, interval, type)
            ELSE [obstacles |-> obstacles, nextSpawnDistance |-> nextSpawnDistance,
                  spawned |-> FALSE]
      collided == st3.flyingChallengeMode /\ checkCollision(om.obstacles, getBounds(h))
  IN  IF silenceOver
      THEN [state |-> gameOver(st1), silenceTimer |-> timer,
            referencePitch |-> referencePitch, currentPitch |-> pitch,
            horse |-> horse, obstacles |-> obstacles,
            nextSpawnDistance |-> nextSpawnDistance, over |-> TRUE,
            log |-> [Did("Frame") EXCEPT !.deltaTime = deltaTime,
                                         !.silenceOver = TRUE]]
      ELSE [state |-> IF collided THEN gameOver(st3) ELSE st3,
            silenceTimer |-> timer,
            referencePitch |-> refPitch, currentPitch |-> pitch,
            horse |-> h, obstacles |-> om.obstacles,
            nextSpawnDistance |-> om.nextSpawnDistance, over |-> collided,
            log |-> [Did("Frame") EXCEPT !.deltaTime = deltaTime,
                                         !.integrated = TRUE,
                                         !.usedSpeed = st2.speed,
                                         !.collisionChecked = st3.flyingChallengeMode,
                                         !.collided = collided,
                                         !.spawned = om.spawned]]

\* Game.update(deltaTime) for the sound the analyser reports and the draws the
\* obstacle manager makes: every field the frame writes, and how it ended
Update(deltaTime, snd, interval, type) ==
  LET volumeLevel == getVolumeLevel(audio, snd.volume)
      pitch       == getPitch(audio, snd.pitch)
      isScreaming == volumeLevel > volumeThreshold
      st1 == [state EXCEPT !.volumeLevel = volumeLevel, !.isScreaming = isScreaming]
      timer == IF isScreaming THEN 0 ELSE silenceTimer + deltaTime
      silenceOver == ~isScreaming /\ silenceTimeout(timer, st1.screamTime)
      st2 == IF isScreaming
             THEN screamingBranch(st1, volumeLevel, deltaTime)
             ELSE silentBranch(st1, deltaTime)
      refPitch == IF isScreaming /\ capturesPitch(st2, pitch) THEN pitch
                  ELSE referencePitch
      st3 == [st2 EXCEPT !.distance = @ + st2.speed * deltaTime]
      h == HorseUpdate(horse, deltaTime, st3.speed, st3.distance, pitch, refPitch)
      om == IF st3.flyingChallengeMode
            THEN ObstacleUpdate(obstacles, nextSpawnDistance, st3.distance,
                                st3.speed, deltaTime, interval, type)
            ELSE [obstacles |-> obstacles, nextSpawnDistance |-> nextSpawnDistance,
                  spawned |-> FALSE]
      collided == st3.flyingChallengeMode /\ checkCollision(om.obstacles, getBounds(h))
  IN  IF silenceOver
      THEN [state |-> gameOver(st1), silenceTimer |-> timer,
            referencePitch |-> referencePitch, currentPitch |-> pitch,
            horse |-> horse, obstacles |-> obstacles,
            nextSpawnDistance |-> nextSpawnDistance, over |-> TRUE,
            log |-> [Did("Frame") EXCEPT !.deltaTime = deltaTime,
                                         !.silenceOver = TRUE]]
      ELSE [state |-> IF collided THEN gameOver(st3) ELSE st3,
            silenceTimer |-> timer,
            referencePitch |-> refPitch, currentPitch |-> pitch,
            horse |-> h, obstacles |-> om.obstacles,
            nextSpawnDistance |-> om.nextSpawnDistance, over |-> collided,
            log |-> [Did("Frame") EXCEPT !.deltaTime = deltaTime,
                                         !.integrated = TRUE,
                                         !.usedSpeed = st2.speed,
                                         !.collisionChecked = st3.flyingChallengeMode,
                                         !.collided = collided,
                                         !.spawned = om.spawned]]

\* Game.render: what the renderer is handed, read when gameLoop calls it
render(st, h) == [distance |-> st.distance, y |-> h.y]

\* the browser runs the oldest requested animation frame: Game.gameLoop(now)
gameLoop(snd, interval, type) ==
  /\ ~unloaded
  /\ scheduled # {}
  /\ LET id == CHOOSE i \in scheduled : \A j \in scheduled : i <= j
         pending == scheduled \ {id}
     IN  IF ~loopRuns(state)
         THEN /\ scheduled' = pending
              /\ log' = Did("FrameSkipped")
              /\ UNCHANGED <<gameVars, requests, timeouts>>
         ELSE \E u \in {Update(now - lastTime, snd, interval, type)} :
              LET left == IF u.over
                          THEN cancelAnimationFrame(pending, animationFrameId)
                          ELSE pending
              IN  /\ lastTime' = now
                  /\ state' = u.state
                  /\ silenceTimer' = u.silenceTimer
                  /\ referencePitch' = u.referencePitch
                  /\ currentPitch' = u.currentPitch
                  /\ horse' = u.horse
                  /\ obstacles' = u.obstacles
                  /\ nextSpawnDistance' = u.nextSpawnDistance
                  /\ lastSpawnAt' = IF u.log.spawned THEN u.state.distance
                                    ELSE lastSpawnAt
                  /\ gameOverCalls' = IF u.over THEN gameOverCalls + 1
                                      ELSE gameOverCalls
                  /\ timeouts' = IF u.over THEN timeouts \cup {now + gameOverDelay}
                                 ELSE timeouts
                  /\ animationFrameId' = requestAnimationFrame(left).id
                  /\ scheduled' = requestAnimationFrame(left).scheduled
                  /\ requests' = requests + 1
                  /\ log' = [u.log EXCEPT !.rendered = render(u.state, u.horse)]
  /\ UNCHANGED <<clock, audio, ui, now, hidden, startPending, unloaded, ticks>>

\* ---------------------------------------------------------------- Next
\* the exploration's caps: requestAnimationFrame calls, clock advances and the
\* pitch height's magnitude
InBounds(E) ==
  /\ requests <= E.maxRequests
  /\ ticks <= E.maxTicks
  /\ horse.currentPitchHeight <= HeightRange * YScale
  /\ horse.currentPitchHeight >= 0 - HeightRange * YScale

\* every handler of the page
Next ==
  \/ \E d \in Env.deltas : Tick(d) /\ InBounds(Env)'
  \/ \E img \in Env.sheets : SpriteLoad(img)
  \/ StartClick
  \/ \E o \in Env.outcomes, m \in Env.modes, i \in Env.intervals :
       MicResult(o, m, i) /\ InBounds(Env)'
  \/ \E s \in Env.sounds, i \in Env.intervals, t \in Env.types :
       gameLoop(s, i, t) /\ InBounds(Env)'
  \/ Hide
  \/ Show /\ InBounds(Env)'
  \/ GameOverTimeout
  \/ \E m \in Env.modes, i \in Env.intervals :
       Restart(m, i) /\ InBounds(Env)'
  \/ Dispose

\* the sessions of a tab that stays visible and open
RunNext ==
  \/ \E d \in RunEnv.deltas : Tick(d) /\ InBounds(RunEnv)'
  \/ StartClick
  \/ \E o \in RunEnv.outcomes, m \in RunEnv.modes, i \in RunEnv.intervals :
       MicResult(o, m, i) /\ InBounds(RunEnv)'
  \/ \E s \in RunEnv.sounds, i \in RunEnv.intervals, t \in RunEnv.types :
       gameLoop(s, i, t) /\ InBounds(RunEnv)'
  \/ GameOverTimeout
  \/ \E m \in RunEnv.modes, i \in RunEnv.intervals :
       Restart(m, i) /\ InBounds(RunEnv)'

\* the challenge-mode sessions of a tab that stays visible and open
FlightNext ==
  \/ \E d \in FlightEnv.deltas : Tick(d) /\ InBounds(FlightEnv)'
  \/ \E img \in FlightEnv.sheets : SpriteLoad(img)
  \/ StartClick
  \/ \E o \in FlightEnv.outcomes, m \in FlightEnv.modes, i \in FlightEnv.intervals :
       MicResult(o, m, i) /\ InBounds(FlightEnv)'
  \/ \E s \in FlightEnv.sounds, i \in FlightEnv.intervals, t \in FlightEnv.types :
       gameLoop(s, i, t) /\ InBounds(FlightEnv)'
  \/ GameOverTimeout
  \/ \E m \in FlightEnv.modes, i \in FlightEnv.intervals :
       Restart(m, i) /\ InBounds(FlightEnv)'

Init == InitWith(Env)
RunInit == InitWith(RunEnv)
FlightInit == InitWith(FlightEnv)

Spec == Init /\ [][Next]_vars
SpecRun == RunInit /\ [][RunNext]_vars
SpecFlight == FlightInit /\ [][FlightNext]_vars

\* ================================== a tab that stays open, under fairness
\* The tab may be hidden and shown but is not closed; the clock goes on and
\* the event loop runs a timer that is due.
LiveEnv ==
  [sounds    |-> {Sound(0, 0), Sound(13, 200)},
   deltas    |-> {30, 300},
   intervals |-> {800},
   types     |-> {"rock"},
   modes     |-> {FALSE},
   outcomes  |-> {"granted", "denied"},
   sheets    |-> {[width |-> 256, height |-> 288]},
   maxRequests |-> LiveMaxRequests,
   maxTicks    |-> LiveMaxTicks]

\* nothing happens until the earliest pending setTimeout delay has elapsed
TimerWait ==
  /\ ~unloaded
  /\ timeouts # {}
  /\ \A due \in timeouts : now < due
  /\ now' = CHOOSE due \in timeouts : \A other \in timeouts : due <= other
  /\ log' = Did("TimerWait")
  /\ UNCHANGED <<clock, gameVars, audio, ui, scheduled, requests, timeouts, hidden,
                 startPending, unloaded, ticks>>

LiveNext ==
  \/ \E d \in LiveEnv.deltas : Tick(d) /\ InBounds(LiveEnv)'
  \/ TimerWait
  \/ StartClick
  \/ \E o \in LiveEnv.outcomes, m \in LiveEnv.modes, i \in LiveEnv.intervals :
       MicResult(o, m, i) /\ InBounds(LiveEnv)'
  \/ \E s \in LiveEnv.sounds, i \in LiveEnv.intervals, t \in LiveEnv.types :
       gameLoop(s, i, t) /\ InBounds(LiveEnv)'
  \/ Hide
  \/ Show /\ InBounds(LiveEnv)'
  \/ GameOverTimeout
  \/ \E m \in LiveEnv.modes, i \in LiveEnv.intervals :
       Restart(m, i) /\ InBounds(LiveEnv)'

LiveInit == InitWith(LiveEnv)

SpecLive ==
  /\ LiveInit
  /\ [][LiveNext]_vars
  /\ WF_vars(TimerWait)
  /\ WF_vars(GameOverTimeout)


\* ===================================== the obstacle field, call by call
\* The horse placed at a distance and a height and a row of obstacles placed
\* on the field, then getTransitionProgress, getBounds/checkCollision and
\* ObstacleManager.update called on them.
FieldEnv ==
  [distances |-> {0, TRANSITION_START * DistScale - 1,
                  TRANSITION_START * DistScale,
                  TRANSITION_START * DistScale + 1,
                  (TRANSITION_START + TRANSITION_DURATION \div 2) * DistScale,
                  (TRANSITION_START + TRANSITION_DURATION) * DistScale - 1,
                  (TRANSITION_START + TRANSITION_DURATION) * DistScale,
                  (TRANSITION_START + TRANSITION_DURATION) * DistScale + 1,
                  (TRANSITION_START + 4000) * DistScale},
   lifts     |-> {0, 19, 20, 21, 400},
   xs        |-> {0 - 109, 5, 6, 162, 163, CanvasWidth + SpawnMargin},
   types     |-> {"rock", "fence"},
   speeds    |-> {0, (baseSpeed + maxSpeedBoost) * SpeedScale},
   deltas    |-> {100, 600},
   intervals |-> {minSpawnInterval},
   sheets    |-> {[width |-> 256, height |-> 288]},
   maxTicks  |-> FieldMaxTicks]

\* an obstacle of a type after it has moved to x px
placed(type, x) == [spawnObstacle(type) EXCEPT !.x = x * DistScale]

\* the rows of at most two obstacles, the older (further left) first
Rows ==
  {<<>>}
  \cup {<<placed(t, x)>> : t \in FieldEnv.types, x \in FieldEnv.xs}
  \cup {row \in {<<placed(t1, x1), placed(t2, x2)>> :
                    t1 \in FieldEnv.types, t2 \in FieldEnv.types,
                    x1 \in FieldEnv.xs, x2 \in FieldEnv.xs} :
          row[1].x <= row[2].x}

\* the horse in challenge mode or not, at a distance, lifted some px above
\* its base line, with its sheet loaded or still the placeholder
HorseAt(mode, distance, img, loaded, lift) ==
  LET h == IF loaded THEN spriteOnload(HorseInit, img) ELSE HorseInit
  IN  [h EXCEPT !.flyingModeEnabled = mode,
                !.currentDistance = distance,
                !.y = IF loaded THEN h.y - lift * YScale ELSE h.y]

\* either a session that has spawned nothing yet, at any distance, or one far
\* into the field with a row of obstacles and the next spawn scheduled
FieldInit ==
  /\ \E interval \in FieldEnv.intervals, img \in FieldEnv.sheets :
       \/ /\ obstacles = ObstacleReset(interval).obstacles
          /\ nextSpawnDistance = ObstacleReset(interval).nextSpawnDistance
          /\ lastSpawnAt = START_DISTANCE * DistScale
          /\ \E mode \in BOOLEAN, d \in FieldEnv.distances :
               horse = HorseAt(mode, d, img, TRUE, 0)
       \/ /\ obstacles \in Rows
          /\ lastSpawnAt \in {(START_DISTANCE + 3000) * DistScale,
                              (START_DISTANCE + 3500) * DistScale}
          /\ nextSpawnDistance = lastSpawnAt + interval * DistScale
          /\ \/ \E lift \in FieldEnv.lifts :
                  horse = HorseAt(TRUE, (TRANSITION_START + 4000) * DistScale,
                                  img, TRUE, lift)
             \/ horse = HorseAt(TRUE, (TRANSITION_START + 4000) * DistScale,
                                img, FALSE, 0)
  /\ state = [getInitialState EXCEPT !.isRunning = TRUE,
                                     !.flyingChallengeMode = horse.flyingModeEnabled,
                                     !.distance = horse.currentDistance]
  /\ lastTime = 0
  /\ animationFrameId = 0
  /\ silenceTimer = 0
  /\ referencePitch = 0
  /\ currentPitch = 0
  /\ audio = AudioInit
  /\ ui = [currentScreen |-> "game", startBtnDisabled |-> TRUE,
           finalDistance |-> 0, finalTime |-> 0]
  /\ now = 0
  /\ scheduled = {}
  /\ requests = 0
  /\ timeouts = {}
  /\ hidden = FALSE
  /\ startPending = FALSE
  /\ unloaded = FALSE
  /\ ticks = 0
  /\ gameOverCalls = 0
  /\ clock = [pausedAt |-> 0 - 1, resumedAt |-> 0 - 1]
  /\ log = Did("init")

\* Horse.getTransitionProgress called: it reads and writes nothing else
CallProgress ==
  /\ log' = [Did("getTransitionProgress") EXCEPT
               !.value = getTransitionProgress(horse)]
  /\ UNCHANGED <<gameVars, clock, audio, ui, now, scheduled, requests, timeouts,
                 hidden, startPending, unloaded, ticks>>

\* checkCollision called on the horse's bounds, as Game.update does
CallCollision ==
  /\ log' = [Did("checkCollision") EXCEPT
               !.collisionChecked = TRUE,
               !.collided = checkCollision(obstacles, getBounds(horse))]
  /\ UNCHANGED <<gameVars, clock, audio, ui, now, scheduled, requests, timeouts,
                 hidden, startPending, unloaded, ticks>>

\* ObstacleManager.update called for a frame of deltaTime at a speed
CallUpdate(speed, deltaTime, interval, type) ==
  /\ ticks < FieldEnv.maxTicks
  /\ \E om \in {ObstacleUpdate(obstacles, nextSpawnDistance, state.distance,
                               speed, deltaTime, interval, type)} :
       /\ obstacles' = om.obstacles
       /\ nextSpawnDistance' = om.nextSpawnDistance
       /\ lastSpawnAt' = IF om.spawned THEN state.distance ELSE lastSpawnAt
       /\ log' = [Did("ObstacleUpdate") EXCEPT !.deltaTime = deltaTime,
                                               !.usedSpeed = speed,
                                               !.spawned = om.spawned]
  /\ ticks' = ticks + 1
  /\ now' = now + deltaTime
  /\ UNCHANGED <<state, lastTime, animationFrameId, silenceTimer, referencePitch,
                 currentPitch, horse, gameOverCalls, clock, audio, ui, scheduled,
                 requests, timeouts, hidden, startPending, unloaded>>

FieldNext ==
  \/ CallProgress
  \/ CallCollision
  \/ \E s \in FieldEnv.speeds, d \in FieldEnv.deltas,
        i \in FieldEnv.intervals, t \in FieldEnv.types : CallUpdate(s, d, i, t)

SpecField == FieldInit /\ [][FieldNext]_vars

\* ============================================ the analyser, call by call
\* A waveform window or a spectrum in the analyser's buffers, and
\* getVolumeLevel or getPitch called on it as Game.update does.
SignalEnv ==
  [samples     |-> {0, 96, 112, 115, 116, 128, 141},
   bins        |-> {1, 2, 3, 119, 120},
   values      |-> {19, 20, 200},
   sampleRates |-> {44100, 48000},
   outcomes    |-> {"granted", "sourceError"}]

\* the windows of WindowLen byte samples
Windows == [1..WindowLen -> SignalEnv.samples]

\* the spectra with at most two non-zero bins
Spectra ==
  LET Peak == [bin : SignalEnv.bins, value : SignalEnv.values]
  IN  {{}} \cup {{p} : p \in Peak}
           \cup UNION {{{p, q} : q \in {r \in Peak : r.bin > p.bin}} : p \in Peak}

\* a page whose AudioManager has been through any one acquisition, or none
SignalInit ==
  /\ audio \in {AudioInit} \cup
               {requestMicrophoneAccess(AudioInit, o) : o \in SignalEnv.outcomes}
  /\ state = [getInitialState EXCEPT !.isRunning = TRUE]
  /\ lastTime = 0
  /\ animationFrameId = 0
  /\ silenceTimer = 0
  /\ referencePitch = 0
  /\ currentPitch = 0
  /\ horse = HorseInit
  /\ obstacles = ObstacleReset(minSpawnInterval).obstacles
  /\ nextSpawnDistance = ObstacleReset(minSpawnInterval).nextSpawnDistance
  /\ lastSpawnAt = START_DISTANCE * DistScale
  /\ ui = [currentScreen |-> "game", startBtnDisabled |-> TRUE,
           finalDistance |-> 0, finalTime |-> 0]
  /\ now = 0
  /\ scheduled = {}
  /\ requests = 0
  /\ timeouts = {}
  /\ hidden = FALSE
  /\ startPending = FALSE
  /\ unloaded = FALSE
  /\ ticks = 0
  /\ gameOverCalls = 0
  /\ clock = [pausedAt |-> 0 - 1, resumedAt |-> 0 - 1]
  /\ log = Did("init")

\* getVolumeLevel called with `window` what getByteTimeDomainData delivers
CallVolume(window) ==
  /\ log' = [Did("getVolumeLevel") EXCEPT
               !.value = getVolumeLevel(audio, normalise(rms(window))),
               !.input.window = window]
  /\ UNCHANGED <<gameVars, clock, audio, ui, now, scheduled, requests, timeouts,
                 hidden, startPending, unloaded, ticks>>

\* getPitch called with `peaks` what getByteFrequencyData delivers into the
\* fftSize / 2 bins of frequencyArray
CallPitch(peaks, sampleRate) ==
  /\ log' = [Did("getPitch") EXCEPT
               !.value = getPitch(audio, detectPitch(peaks, fftSize \div 2, sampleRate)),
               !.input.peaks = peaks,
               !.input.sampleRate = sampleRate]
  /\ UNCHANGED <<gameVars, clock, audio, ui, now, scheduled, requests, timeouts,
                 hidden, startPending, unloaded, ticks>>

SignalNext ==
  \/ \E window \in Windows : CallVolume(window)
  \/ \E peaks \in Spectra, sampleRate \in SignalEnv.sampleRates :
       CallPitch(peaks, sampleRate)

SpecSignal == SignalInit /\ [][SignalNext]_vars

\* ============================================================ properties
\* C1: while a session is running, a frame update ends in game over if and
\* only if, in that frame, either the volume is not above the threshold, the
\* silence timer plus this frame's delta has reached the grace period and
\* scream time is positive, or the collision test reports an overlap
C1_GameOverIffTrigger ==
  [][log'.op = "Frame" =>
       (state'.isGameOver <=>
          \/ /\ state'.volumeLevel <= volumeThreshold
             /\ silenceTimer + (now - lastTime) >= silenceGracePeriod
             /\ state.screamTime > 0
          \/ /\ log'.collisionChecked
             /\ checkCollision(obstacles', getBounds(horse')))]_vars

\* a frame that ended the run by collision while the player was screaming
C1_CollisionWhileScreaming ==
  /\ log.op = "Frame"
  /\ state.isGameOver
  /\ state.volumeLevel > volumeThreshold
  /\ log.collided

\* C2: once scream time is positive, a run of silent frames ends the session at
\* the first frame where the accumulated silence reaches the grace period,
\* never earlier, and gameOver() runs exactly once in the session
C2_SilenceEndsOnce ==
  /\ (~state.isGameOver /\ state.screamTime > 0) =>
       silenceTimer < silenceGracePeriod
  /\ log.silenceOver =>
       (silenceTimer >= silenceGracePeriod /\ state.screamTime > 0)
  /\ gameOverCalls = (IF state.isGameOver THEN 1 ELSE 0)

\* silence that reached the grace period exactly ended the session
C2_EndedAtGrace ==
  /\ log.op = "Frame"
  /\ log.silenceOver
  /\ silenceTimer = silenceGracePeriod
  /\ gameOverCalls = 1

\* C3: a game that has never been started becomes running, or gets a frame
\* callback scheduled, only through start() after the microphone was acquired
C3_RunsOnlyThroughStart ==
  [][(/\ ui.currentScreen = "start"
      /\ \/ ~state.isRunning /\ state'.isRunning
         \/ requests' > requests) => log'.op = "StartDone"]_vars

\* C4: once the game is over it stays over through every frame callback,
\* pause() and resume(): isGameOver stays true, isRunning false, no frame
\* update is applied and no callback is scheduled, until restart()
C4_GameOverIsTerminal ==
  [][state.isGameOver =>
       /\ log'.op # "Restart" => (state'.isGameOver /\ ~state'.isRunning)
       /\ log'.op \in {"Frame", "FrameSkipped", "Pause", "Resume", "ResumeIgnored"} =>
            /\ log'.op \notin {"Frame", "Resume"}
            /\ state' = [state EXCEPT !.isPaused = state'.isPaused]
            /\ <<silenceTimer, referencePitch, currentPitch, horse, obstacles,
                 nextSpawnDistance, lastTime>>'
                 = <<silenceTimer, referencePitch, currentPitch, horse, obstacles,
                     nextSpawnDistance, lastTime>>
            /\ requests' = requests
            /\ scheduled' \subseteq scheduled]_vars

\* the last callback fired and resume() was called, and the game is still over
C4_ResumeAfterGameOver ==
  /\ state.isGameOver
  /\ ~state.isRunning
  /\ log.op = "ResumeIgnored"
  /\ scheduled = {}

\* C5: after restart() the session state is that of a fresh session, whatever
\* the previous session left behind
C5_RestartIsFresh ==
  log.op = "Restart" =>
    /\ state.distance = 0 /\ state.speed = 0
    /\ state.volumeLevel = 0 /\ state.screamTime = 0
    /\ ~state.isScreaming /\ ~state.isGameOver
    /\ silenceTimer = 0 /\ referencePitch = 0 /\ currentPitch = 0
    /\ horse.currentFrame = 0 /\ horse.currentPitchHeight = 0
    /\ obstacles = <<>>
    /\ nextSpawnDistance > START_DISTANCE * DistScale

\* a restart after a session that ran into the obstacle field
C5_RestartAfterObstacles ==
  /\ log.op = "Restart"
  /\ ui.finalDistance >= START_DISTANCE + minSpawnInterval
  /\ ui.finalTime > 0

\* C6: between pause() of a running session and the next resume() no frame
\* update is applied, also when a callback scheduled before the pause fires,
\* and that callback schedules no other
C6_PausedIsFrozen ==
  [][(/\ state.isPaused /\ ~state.isGameOver
      /\ ui.currentScreen = "game"
      /\ log'.op \notin {"Resume", "Restart"}) =>
       /\ log'.op # "Frame"
       /\ state'.distance = state.distance
       /\ state'.speed = state.speed
       /\ state'.screamTime = state.screamTime
       /\ <<silenceTimer, referencePitch, obstacles>>'
            = <<silenceTimer, referencePitch, obstacles>>
       /\ requests' = requests
       /\ scheduled' \subseteq scheduled]_vars

\* a callback scheduled before the pause fired while the session was paused
C6_StaleCallbackWhilePaused ==
  /\ state.isPaused /\ ~state.isGameOver
  /\ ui.currentScreen = "game"
  /\ state.distance > 0
  /\ log.op = "FrameSkipped"

\* C7: a frame update after resume() uses a delta measured from no earlier
\* than the resume, so no delta includes the time the game was paused
C7_DeltaSinceResume ==
  (log.op = "Frame" /\ clock.resumedAt >= 0) =>
    log.deltaTime <= now - clock.resumedAt

\* the first frame after a pause that lasted some time
C7_FirstFrameAfterResume ==
  /\ log.op = "Frame"
  /\ ui.currentScreen = "game"
  /\ clock.pausedAt >= 0
  /\ clock.resumedAt > clock.pausedAt
  /\ log.deltaTime > 0
  /\ log.deltaTime = now - clock.resumedAt

\* C8: over frames with delta >= 0 the distance never decreases, and it grows
\* in a frame exactly when the speed used in that frame and the delta are
\* both positive
C8_DistanceMonotone ==
  [][log'.op = "Frame" =>
       /\ state'.distance >= state.distance
       /\ log'.integrated =>
            /\ ~log'.collided => log'.usedSpeed = state'.speed
            /\ state'.distance - state.distance = log'.usedSpeed * log'.deltaTime
            /\ state'.distance > state.distance
                 <=> (log'.usedSpeed > 0 /\ log'.deltaTime > 0)
       /\ ~log'.integrated => state'.distance = state.distance]_vars

\* a silent frame in which the horse still coasted forward
C8_CoastingFrame ==
  /\ log.op = "Frame"
  /\ log.integrated
  /\ ~state.isScreaming
  /\ log.usedSpeed > 0
  /\ log.deltaTime > 0

\* C9, as stated: for every volume at or above the threshold the speed after
\* the frame lies in [baseSpeed, baseSpeed + maxSpeedBoost]
C9_AtOrAboveThreshold ==
  (log.op = "Frame" /\ state.volumeLevel >= volumeThreshold) =>
    /\ state.speed >= baseSpeed * SpeedScale
    /\ state.speed <= (baseSpeed + maxSpeedBoost) * SpeedScale

\* C9, amended: for every volume strictly above the threshold the speed after
\* a frame that does not end in a collision lies in
\* [baseSpeed, baseSpeed + maxSpeedBoost] and is non-decreasing in the volume
C9_AboveThreshold ==
  (log.op = "Frame" /\ state.volumeLevel > volumeThreshold /\ ~log.collided) =>
    /\ state.speed >= baseSpeed * SpeedScale
    /\ state.speed <= (baseSpeed + maxSpeedBoost) * SpeedScale
    /\ \A w \in (volumeThreshold + 1)..VolScale :
         /\ w <= state.volumeLevel => updateSpeed(w) <= state.speed
         /\ w >= state.volumeLevel => updateSpeed(w) >= state.speed

\* a frame at full volume ran at the top speed
C9_FullVolumeFrame ==
  /\ log.op = "Frame"
  /\ state.volumeLevel = VolScale
  /\ state.speed = (baseSpeed + maxSpeedBoost) * SpeedScale

\* C10: in a frame whose volume is above the threshold T the speed is set to
\* base + maxBoost * (volume - T) / (1 - T), whatever the previous speed and
\* the delta; volume 0.65 gives 510
C10_LinearRamp ==
  (log.op = "Frame" /\ state.volumeLevel > volumeThreshold) =>
    /\ log.usedSpeed * (VolScale - volumeThreshold)
         = baseSpeed * SpeedScale * (VolScale - volumeThreshold)
           + maxSpeedBoost * SpeedScale * (state.volumeLevel - volumeThreshold)
    /\ ~log.collided => state.speed = log.usedSpeed
    /\ state.volumeLevel * 100 = 65 * VolScale => log.usedSpeed = 510 * SpeedScale

\* a frame at volume 0.65 after some time, running at 510
C10_Volume065 ==
  /\ log.op = "Frame"
  /\ state.volumeLevel * 100 = 65 * VolScale
  /\ log.deltaTime > 0
  /\ state.speed = 510 * SpeedScale

\* C11: over consecutive frames with the volume not above the threshold the
\* speed never rises and never goes below 0; each such frame takes exactly
\* 200 px/s per second off it until it is 0, or ends the game with speed 0,
\* so the speed is 0 once the silence has lasted (base + boost) / 200 seconds
C11_SilentSpeedDecays ==
  [][(log'.op = "Frame" /\ state'.volumeLevel <= volumeThreshold) =>
       /\ state'.speed <= state.speed
       /\ state'.speed >= 0
       /\ IF state'.isGameOver
          THEN state'.speed = 0
          ELSE state'.speed * MsPerSecond
                 = Max(0, state.speed * MsPerSecond
                          - SlowDownRate * SpeedScale * (now - lastTime))
       /\ state'.speed * MsPerSecond
            <= Max(0, (baseSpeed + maxSpeedBoost) * SpeedScale * MsPerSecond
                      - SlowDownRate * SpeedScale * silenceTimer')]_vars

\* a horse that moved and then coasted to a stop in a session still running
C11_CoastedToStop ==
  /\ log.op = "Frame"
  /\ ~state.isGameOver
  /\ ~state.isScreaming
  /\ silenceTimer > 0
  /\ state.distance > 0
  /\ state.speed = 0

C13_CollisionIffOverlap ==
  log.op = "checkCollision" =>
    (log.collided <=>
       \E i \in 1..Len(obstacles) :
         /\ Max((getBounds(horse).x + CollisionPadding) * DistScale, obstacles[i].x)
              < Min((getBounds(horse).x + getBounds(horse).width
                       - CollisionPadding) * DistScale,
                    obstacles[i].x + obstacles[i].width * DistScale)
         /\ Max(getBounds(horse).y + CollisionPadding * YScale,
                obstacles[i].y * YScale)
              < Min(getBounds(horse).y
                      + (getBounds(horse).height - CollisionPadding) * YScale,
                    (obstacles[i].y + obstacles[i].height) * YScale))

\* an obstacle whose left edge is exactly at the horse's padded right edge, level
\* with the horse: no collision
C13_TouchingEdge ==
  /\ log.op = "checkCollision"
  /\ ~log.collided
  /\ Len(obstacles) = 1
  /\ obstacles[1].x = (getBounds(horse).x + getBounds(horse).width
                         - CollisionPadding) * DistScale
  /\ getBounds(horse).y + (getBounds(horse).height - CollisionPadding) * YScale
       > obstacles[1].y * YScale
  /\ getBounds(horse).y + CollisionPadding * YScale
       < (obstacles[1].y + obstacles[1].height) * YScale

\* C14: in challenge mode, a frame update after whose obstacle movement an
\* obstacle overlaps the horse's padded bounds leaves the game over at the end
\* of that frame, with gameOver() run once, and no later frame update is
\* applied to that session
C14_CollisionEndsFrame ==
  [][/\ (/\ log'.op = "Frame" /\ log'.integrated
         /\ state'.flyingChallengeMode
         /\ checkCollision(obstacles', getBounds(horse'))) =>
          /\ state'.isGameOver /\ ~state'.isRunning
          /\ log'.collisionChecked /\ log'.collided
          /\ gameOverCalls' = 1
     /\ (state.isGameOver /\ log'.op # "Restart") =>
          /\ log'.op # "Frame"
          /\ gameOverCalls' = gameOverCalls]_vars

\* after a collision ended the run, the callback requested by that frame fired
\* and was dropped
C14_CallbackAfterCollision ==
  /\ state.isGameOver
  /\ log.op = "FrameSkipped"
  /\ state.flyingChallengeMode
  /\ state.isScreaming
  /\ checkCollision(obstacles, getBounds(horse))
  /\ gameOverCalls = 1

\* C15: in every state of a session whose distance is below the start
\* threshold of the obstacles (5000) the obstacle collection is empty and no
\* collision is reported
C15_NoObstaclesBeforeStart ==
  state.distance < START_DISTANCE * DistScale =>
    /\ obstacles = <<>>
    /\ ~log.collided
    /\ ~checkCollision(obstacles, getBounds(horse))

\* a challenge-mode frame below the threshold: the horse moved, the collision
\* test ran and found nothing
C15_FrameBeforeStart ==
  /\ log.op = "Frame"
  /\ log.collisionChecked
  /\ state.distance > 0
  /\ state.distance < START_DISTANCE * DistScale

\* C16: the distance travelled between two consecutive spawns, and between
\* the start threshold and the first spawn, lies in
\* [minSpawnInterval, maxSpawnInterval], and a frame spawns at most one
\* obstacle
C16_SpawnGapInRange ==
  [][(log'.op = "Frame" /\ log'.spawned) =>
       /\ state'.distance - lastSpawnAt >= minSpawnInterval * DistScale
       /\ state'.distance - lastSpawnAt <= maxSpawnInterval * DistScale
       /\ Len(obstacles') <= Len(obstacles) + 1]_vars

C18_FailedStartChangesNothing ==
  [][log'.op = "StartFailed" =>
       /\ ~audio'.isEnabled
       /\ <<state, lastTime, animationFrameId, silenceTimer, referencePitch,
            currentPitch, horse, obstacles, nextSpawnDistance, gameOverCalls>>'
            = <<state, lastTime, animationFrameId, silenceTimer, referencePitch,
                currentPitch, horse, obstacles, nextSpawnDistance, gameOverCalls>>
       /\ <<scheduled, requests, timeouts>>' = <<scheduled, requests, timeouts>>
       /\ ui'.currentScreen = "start"
       /\ ~ui'.startBtnDisabled
       /\ ~startPending']_vars

\* the acquisition failed after the stream was granted, while the analyser was
\* being set up; the game has not started and the button is enabled
C18_FailedAfterGrant ==
  /\ log.op = "StartFailed"
  /\ audio.stream = "live"
  /\ ~audio.isEnabled
  /\ ~state.isRunning
  /\ scheduled = {}
  /\ ~ui.startBtnDisabled

\* C19: while the microphone is not enabled (never acquired, acquisition failed
\* at any step, or disposed) getVolumeLevel and getPitch give 0 whatever the
\* room sounds like, and a frame that runs in that condition reads volume 0
\* and pitch 0
C19_NoDeviceReadsZero ==
  [][/\ ~audio'.isEnabled =>
          \A snd \in Env.sounds :
             /\ getVolumeLevel(audio', snd.volume) = 0
             /\ getPitch(audio', snd.pitch) = 0
     /\ (log'.op = "Frame" /\ ~audio.isEnabled) =>
          /\ state'.volumeLevel = 0
          /\ currentPitch' = 0
          /\ ~state'.isScreaming]_vars

\* a frame ran after the acquisition failed with the analyser node already
\* created but its buffers not yet allocated
C19_FrameAfterHalfInit ==
  /\ log.op = "Frame"
  /\ audio.analyser
  /\ ~audio.dataArray
  /\ ~audio.isEnabled
  /\ state.volumeLevel = 0

\* C20: after dispose, in whatever state it is called, the stream is released,
\* the context closed, every device field of the AudioManager cleared and the
\* device not enabled; no frame callback of the loop is left pending; and a
\* dispose after a dispose changes nothing
C20_DisposeReleasesAll ==
  [][log'.op = "Dispose" =>
       /\ audio'.stream = "null"
       /\ audio'.audioContext = "null"
       /\ audio' = AudioInit
       /\ scheduled' = {}
       /\ unloaded => /\ audio' = audio
                      /\ scheduled' = scheduled
                      /\ gameVars' = gameVars]_vars

\* C21: the volume getVolumeLevel returns for a waveform window lies in
\* [0, 1]; with the device initialised it is 0 for a raw amplitude at or
\* below minVolume, 1 at or above maxVolume and (raw - minVolume) /
\* (maxVolume - minVolume), to the volume unit, in between
C21_VolumeInUnitRange ==
  /\ log.op = "getVolumeLevel" => (log.value >= 0 /\ log.value <= VolScale)
  /\ (log.op = "getVolumeLevel" /\ audio.isEnabled) =>
       LET raw == rms(log.input.window)
       IN  /\ raw <= minVolume => log.value = 0
           /\ raw >= maxVolume => log.value = VolScale
           /\ (raw > minVolume /\ raw < maxVolume) =>
                /\ log.value * (maxVolume - minVolume)
                     <= (raw - minVolume) * VolScale
                /\ (raw - minVolume) * VolScale
                     < (log.value + 1) * (maxVolume - minVolume)

\* a window louder than the ceiling read as 1, after one between floor and
\* ceiling would have read strictly between 0 and 1
C21_LoudWindowClamped ==
  /\ log.op = "getVolumeLevel"
  /\ audio.isEnabled
  /\ rms(log.input.window) > maxVolume
  /\ log.value = VolScale

\* C22: with the device initialised, getPitch returns 0 when the largest
\* magnitude among the bins minBin..maxBin-1 is below the floor, and otherwise
\* the lowest-indexed bin of that largest magnitude times sampleRate / fftSize;
\* bins outside the band play no part
C22_PitchIsBandPeak ==
  (log.op = "getPitch" /\ audio.isEnabled) =>
    LET band == {p \in log.input.peaks :
                   p.bin >= minBin /\ p.bin < Min(fftSize \div 2, maxBinLimit)}
        top  == IF band = {} THEN 0
                ELSE (CHOOSE p \in band : \A q \in band : q.value <= p.value).value
        loudest == {p \in band : p.value = top}
        first == CHOOSE p \in loudest : \A q \in loudest : p.bin <= q.bin
    IN  IF top < minMagnitude THEN log.value = 0
        ELSE log.value = first.bin * log.input.sampleRate

\* the pitch is that of bin 119 although bin 120, just past the band, is louder
C22_LouderBinPastBand ==
  /\ log.op = "getPitch"
  /\ audio.isEnabled
  /\ log.input.peaks = {[bin |-> maxBinLimit - 1, value |-> minMagnitude],
                        [bin |-> maxBinLimit, value |-> 200]}
  /\ log.value = (maxBinLimit - 1) * log.input.sampleRate

\* C23: the reference pitch changes only in a frame of a challenge-mode
\* session in which the player screams, a pitch is detected and the distance
\* the frame starts from is in [4500, 5000), where it takes the detected
\* pitch, or in start/restart, which reset it to 0; from distance 5000 on no
\* frame changes it
C23_ReferenceLatchedInWindow ==
  [][/\ referencePitch' # referencePitch =>
          \/ /\ log'.op \in {"StartDone", "Restart"}
             /\ referencePitch' = 0
          \/ /\ log'.op = "Frame"
             /\ state.flyingChallengeMode
             /\ state'.isScreaming
             /\ currentPitch' > 0
             /\ state.distance >= PITCH_CAPTURE_DISTANCE * DistScale
             /\ state.distance < PITCH_CAPTURE_END * DistScale
             /\ referencePitch' = currentPitch'
     /\ (log'.op = "Frame" /\ state.distance >= PITCH_CAPTURE_END * DistScale) =>
          referencePitch' = referencePitch]_vars

\* past 5000 m a frame heard another pitch than the latched one
C23_OtherPitchAfterLatch ==
  /\ log.op = "Frame"
  /\ log.integrated
  /\ state.distance - log.usedSpeed * log.deltaTime >= PITCH_CAPTURE_END * DistScale
  /\ referencePitch > 0
  /\ currentPitch > 0
  /\ currentPitch # referencePitch

\* C24: in every frame that updates the horse with transition progress > 0, a
\* reference pitch > 0 and a detected pitch > 0 the height target is
\* clamp(0, MAX, MAX * (pitch / reference - 1)) and the smoothed height ends
\* no farther from it than it started; in the other frames it ends no farther
\* from 0 than it started
C24_HeightApproachesTarget ==
  [][(log'.op = "Frame" /\ log'.integrated) =>
       LET steer  == /\ getTransitionProgress(horse') > 0
                     /\ referencePitch' > 0
                     /\ currentPitch' > 0
           clamp  == Max(0, Min(MAX_PITCH_HEIGHT * YScale,
                       ((currentPitch' - referencePitch') * MAX_PITCH_HEIGHT * YScale)
                         \div referencePitch'))
           target == IF steer THEN clamp ELSE 0
           before == horse.currentPitchHeight - target
           after  == horse'.currentPitchHeight - target
       IN  /\ steer => horse'.targetPitchHeight = clamp
           /\ Max(after, 0 - after) <= Max(before, 0 - before)]_vars

\* C25: a frame with the volume above the threshold adds its delta time to
\* screamTime and zeroes the silence timer, any other frame leaves screamTime
\* as it was, and isScreaming after a frame says which of the two it was; a
\* session starts from screamTime 0, so screamTime is the sum of the deltas of
\* its screaming frames
C25_ScreamTimeIsSum ==
  [][/\ log'.op \in {"StartDone", "Restart"} => state'.screamTime = 0
     /\ log'.op = "Frame" =>
          /\ state'.isScreaming <=> state'.volumeLevel > volumeThreshold
          /\ IF state'.volumeLevel > volumeThreshold
             THEN /\ state'.screamTime = state.screamTime + (now - lastTime)
                  /\ silenceTimer' = 0
             ELSE state'.screamTime = state.screamTime
     /\ log'.op \notin {"StartDone", "Restart", "Frame"} =>
          state'.screamTime = state.screamTime]_vars

\* a silent frame inside the grace period, after screaming frames of two
\* different lengths, left the score at their sum
C25_SilentFrameKeepsScore ==
  /\ log.op = "Frame"
  /\ ~state.isScreaming
  /\ ~state.isGameOver
  /\ log.deltaTime > 0
  /\ state.screamTime = 20 + 300

\* C26: a frame that does not end on silence moves the distance by delta time
\* times the speed this same frame computed from this frame's volume (the
\* ramp if it is above the threshold, the decayed speed if not), having first
\* done the scream/silence bookkeeping, and what the frame renders is the
\* state after the update
C26_FrameOrder ==
  [][(log'.op = "Frame" /\ log'.integrated) =>
       LET volume == state'.volumeLevel
           speed  == IF volume > volumeThreshold
                     THEN baseSpeed * SpeedScale
                          + ((volume - volumeThreshold) * maxSpeedBoost * SpeedScale)
                              \div (VolScale - volumeThreshold)
                     ELSE Max(0, state.speed
                                 - (SlowDownRate * SpeedScale * (now - lastTime))
                                     \div MsPerSecond)
       IN  /\ state'.isScreaming <=> volume > volumeThreshold
           /\ silenceTimer' = IF volume > volumeThreshold THEN 0
                              ELSE silenceTimer + (now - lastTime)
           /\ log'.usedSpeed = speed
           /\ ~log'.collided => state'.speed = speed
           /\ state'.distance = state.distance + speed * (now - lastTime)
           /\ log'.rendered = [distance |-> state'.distance, y |-> horse'.y]]_vars

\* the first screaming frame of a session: the horse stood still before it and
\* the whole distance comes from the speed of this frame's volume
C26_FirstScreamMoves ==
  /\ log.op = "Frame"
  /\ log.integrated
  /\ log.deltaTime > 0
  /\ state.screamTime = log.deltaTime
  /\ state.distance = log.usedSpeed * log.deltaTime
  /\ state.distance > 0
  /\ log.rendered.distance = state.distance

\* C27: while the session's challenge-mode flag is off, at any distance and
\* pitch, the transition progress is 0, the horse stands on its base line, the
\* field is empty and the reference pitch is 0; no frame spawns an obstacle or
\* tests for a collision, and a frame ends the game only by the silence
\* timeout; the flag changes only in start and restart
C27_ModeOffStaysOnGround ==
  [][/\ ~state'.flyingChallengeMode =>
          /\ ~horse'.flyingModeEnabled
          /\ getTransitionProgress(horse') = 0
          /\ horse'.currentPitchHeight = 0
          /\ horse'.y = IF horse'.spriteLoaded
                        THEN (groundY - horse'.frameHeight) * YScale
                        ELSE groundY * YScale
          /\ obstacles' = <<>>
          /\ referencePitch' = 0
     /\ (log'.op = "Frame" /\ ~state.flyingChallengeMode) =>
          /\ ~log'.spawned
          /\ ~log'.collisionChecked
          /\ state'.isGameOver => log'.silenceOver
     /\ state'.flyingChallengeMode # state.flyingChallengeMode =>
          log'.op \in {"StartDone", "Restart"}]_vars

\* a frame of a session without challenge mode, far past the transition
\* distance, with a pitch detected
C27_PastTransitionModeOff ==
  /\ log.op = "Frame"
  /\ log.integrated
  /\ ~state.flyingChallengeMode
  /\ state.distance >= (TRANSITION_START + TRANSITION_DURATION) * DistScale
  /\ currentPitch > 0
  /\ horse.spriteLoaded

\* C28: at any moment at most one frame callback of the game loop is requested
\* and not yet run
C28_OneCallbackPending ==
  Cardinality(scheduled) <= 1

\* C29: in every reachable state at most one of the flags isRunning, isPaused
\* and isGameOver is true
C29_FlagsOneHot ==
  /\ ~(state.isRunning /\ state.isPaused)
  /\ ~(state.isRunning /\ state.isGameOver)
  /\ ~(state.isPaused /\ state.isGameOver)

\* C30: after every obstacle update of a session the field holds at most one
\* obstacle
C30_AtMostOneObstacle ==
  Len(obstacles) <= 1

\* a frame spawned an obstacle when an earlier one of the session had been
\* spawned before, and the new one is alone on the field
C30_SecondSpawnAlone ==
  /\ log.op = "Frame"
  /\ log.spawned
  /\ state.distance - log.usedSpeed * log.deltaTime
       >= (START_DISTANCE + maxSpawnInterval) * DistScale
  /\ Len(obstacles) = 1

\* C31: in every reachable state the horse's smoothed pitch height lies in
\* [0, MAX_PITCH_HEIGHT], whatever the frame delta times and the pitches, so
\* the horse is drawn neither below its base line nor more than
\* MAX_PITCH_HEIGHT above it
C31_HeightInRange ==
  /\ horse.currentPitchHeight >= 0
  /\ horse.currentPitchHeight <= MAX_PITCH_HEIGHT * YScale
  /\ horse.spriteLoaded =>
       /\ horse.y <= (groundY - horse.frameHeight) * YScale
       /\ horse.y >= (groundY - horse.frameHeight - MAX_PITCH_HEIGHT) * YScale

\* C32: from the step that enters GameOver until restart the distance and the
\* scream time do not change and the speed is 0; entering GameOver sets one
\* timer of gameOverDelay, the game-over screen is shown when that timer
\* fires, not before the delay has passed and not a second time, with
\* floor(distance) and the scream time of the moment GameOver was entered; and
\* in a tab that stays open the screen is eventually shown
C32_GameOverFreezesAndShows ==
  /\ [][/\ (state.isGameOver /\ log'.op # "Restart") =>
             /\ state'.distance = state.distance
             /\ state'.screamTime = state.screamTime
             /\ state'.speed = 0
        /\ (~state.isGameOver /\ state'.isGameOver) =>
             /\ state'.speed = 0
             /\ timeouts = {}
             /\ timeouts' = {now + gameOverDelay}
             /\ ui'.currentScreen = "game"
        /\ log'.op = "GameOverScreen" =>
             /\ state.isGameOver
             /\ ui.currentScreen = "game"
             /\ timeouts' = {}
             /\ \A due \in timeouts : now >= due
             /\ ui'.currentScreen = "gameover"
             /\ ui'.finalDistance * DistScale <= state.distance
             /\ state.distance < (ui'.finalDistance + 1) * DistScale
             /\ ui'.finalTime = state.screamTime
        /\ (ui.currentScreen # "gameover" /\ ui'.currentScreen = "gameover") =>
             log'.op = "GameOverScreen"]_vars
  /\ [](state.isGameOver =>
          \/ ui.currentScreen = "game" /\ Cardinality(timeouts) = 1
          \/ ui.currentScreen = "gameover" /\ timeouts = {})
  /\ (state.isGameOver /\ ui.currentScreen = "game")
       ~> (state.isGameOver /\ ui.currentScreen = "gameover")

\* the screen came up while the tab was hidden, after a run that covered some
\* distance, with the scores of the frame that ended it
C32_ShownWhileHidden ==
  /\ log.op = "GameOverScreen"
  /\ hidden
  /\ state.isGameOver
  /\ state.isPaused
  /\ state.distance > 0
  /\ ui.finalDistance = state.distance \div DistScale
  /\ ui.finalTime = state.screamTime
  /\ ui.finalTime > 0

\* C33: whenever requestMicrophoneAccess returns false the AudioManager holds
\* no live stream and no open context afterwards, also when the stream was
\* granted and a later step threw; and an acquisition that is granted a new
\* stream finds the one held before released
C33_FailedAcquisitionHoldsNothing ==
  [][/\ log'.op = "StartFailed" =>
          /\ audio'.stream = "null"
          /\ audio'.audioContext = "null"
     /\ (log'.op \in {"StartDone", "StartFailed"} /\ log'.acquired) =>
          audio.stream = "null"]_vars

====
